---- MODULE Spec2Model ----
(***************************************************************************)
(* Catalog synchronisation (addtoshopify.py): request executor with retry, *)
(* paginated fetch, remote catalog cache, product reconciliation and the   *)
(* end-of-run stale sweep.                                                 *)
(*                                                                         *)
(* Every function of the program is an operator computed the way the code  *)
(* computes it.  The network is the environment: each attempt of a request *)
(* has an outcome drawn from NetOutcomes, each listing page request a      *)
(* result drawn from PageOutcomes.                                         *)
(***************************************************************************)
EXTENDS Integers, Sequences, FiniteSets, TLC

VARIABLES
    \* make_shopify_request: one call and its result
    req_method, req_outs, req_max_retries, req_ret,
    \* process_product: one call and its result
    rc_product, rc_existing, rc_ret,
    \* module globals of addtoshopify.py and the clock / remote service
    existing_products_cache, last_cache_update, clock, server, get_ret,
    \* main(): the local batches and the position in the run
    files, seen_skus, pc, file_idx, prod_idx, existing_products,
    total_processed, run_log, disabled_updates, sent_chunks, failures,
    \* get_all_paginated: one call and its result
    pg_catalog, pg_outs, pg_ret,
    \* RateLimiter: the shared last_call, the time, and for every thread in
    \* wait() its position and its locals now and wait_time (wake is the
    \* time its sleep ends)
    threads, lim_time, last_call, lim_pc, now, wait_time, wake, stamp_time,
    grants,
    \* calculate_adjusted_price: one call and its result
    original_price, adjusted_price

vars == <<req_method, req_outs, req_max_retries, req_ret,
          rc_product, rc_existing, rc_ret,
          existing_products_cache, last_cache_update, clock, server, get_ret,
          files, seen_skus, pc, file_idx, prod_idx, existing_products,
          total_processed, run_log, disabled_updates, sent_chunks,
          failures,
          pg_catalog, pg_outs, pg_ret,
          threads, lim_time, last_call, lim_pc, now, wait_time, wake,
          stamp_time, grants,
          original_price, adjusted_price>>

reqVars == <<req_method, req_outs, req_max_retries, req_ret>>
rcVars == <<rc_product, rc_existing, rc_ret>>
cacheVars == <<existing_products_cache, last_cache_update, clock, server, get_ret>>
runVars == <<files, seen_skus, pc, file_idx, prod_idx, existing_products,
             total_processed, run_log, disabled_updates, sent_chunks,
             failures>>
pageVars == <<pg_catalog, pg_outs, pg_ret>>
limVars == <<threads, lim_time, last_call, lim_pc, now, wait_time, wake,
             stamp_time, grants>>
priceVars == <<original_price, adjusted_price>>

(***************************************************************************)
(* Configuration (CONFIG and defaults).                                    *)
(***************************************************************************)
CACHE_TTL == 300
INVENTORY_DEFAULT == 1000
BATCH_SIZE == 50
max_retries_default == 3
\* BASE_PRICE_INCREASE 1.075, in thousandths
BASE_PRICE_INCREASE == 1075
\* PRICE_ROUNDING 0.99, in cents
PRICE_ROUNDING == 99

(***************************************************************************)
(* Bounds of the model.                                                    *)
(***************************************************************************)
\* length of the scripted sequence of network outcomes of one request
NetLen == 4
\* variants per local product
MaxVariants == 2
\* remote products in a snapshot handed to process_product
MaxRemote == 2
\* products per listing page served by the remote service
PageSize == 1
\* products in the remote catalog
MaxCatalog == 2
\* local products of a run, over all brand files
MaxLocal == 2
\* failed requests (None or undecodable body) in a run
MaxFailures == 1
\* chunks of the stale sweep in the runs that exercise it
MaxChunks == 2
\* pages of a listing fetched on its own
MaxPages == 3
\* highest price given to the price transform, in cents
MaxCents == 8000
\* resolution of the clock: ticks in one min_interval of the rate limiter
TicksPerInterval == 2
\* ticks the clock advances while the rate limiter is observed
MaxTime == 6
\* calls of RateLimiter.wait() in one behaviour
MaxAcquire == 3
\* threads that share the rate limiter
MaxThreads == 2

(***************************************************************************)
(* Helpers.                                                                *)
(***************************************************************************)
SeqsUpTo(S, n) == UNION {[1..k -> S] : k \in 0..n}

RECURSIVE Pow2(_)
Pow2(n) == IF n = 0 THEN 1 ELSE 2 * Pow2(n - 1)

(***************************************************************************)
(* make_shopify_request (lines 88-115).                                    *)
(*                                                                         *)
(* outs[i] is what the network does on the i-th attempt: "ok" is a 2xx     *)
(* response; "429", "5xx" are error statuses, which raise_for_status turns *)
(* into HTTPError; "neterr" is a ConnectionError/Timeout.  All three are   *)
(* RequestException and take the same except branch.                       *)
(* The result records the status handed to the caller ("response", "None", *)
(* or "raised" when an exception leaves the function) and the trace of     *)
(* limiter.wait() calls, network calls and back-off sleeps.                *)
(***************************************************************************)
NetOutcomes == {"ok", "429", "5xx", "neterr"}
Methods == {"GET", "POST", "PUT", "DELETE"}
KnownMethods == {"GET", "POST", "PUT"}

Ev(kind, arg, out) == [ev |-> kind, arg |-> arg, out |-> out]

\* a loop iteration that goes to the network without limiter.wait()
limiter_wait_skipped(trace) == trace

\* limiter.wait() at the head of every loop iteration (line 94)
limiter_wait(trace) == Append(trace, Ev("wait", 0, "-"))

RECURSIVE request_loop(_, _, _, _, _)
request_loop(method, outs, max_retries, retries, trace) ==
    IF ~(retries < max_retries)
    THEN \* the while loop ends without a return: the function returns None
         [status |-> "None", retries |-> retries, trace |-> trace]
    ELSE LET acquired == limiter_wait(trace)
         IN  IF method \notin KnownMethods
             THEN \* no branch binds response: response.raise_for_status()
                  \* raises UnboundLocalError, which is no RequestException
                  [status |-> "raised", retries |-> retries, trace |-> acquired]
             ELSE LET out == outs[retries + 1]
                      called == Append(acquired, Ev("call", retries + 1, out))
                  IN  IF out = "ok"
                      THEN [status |-> "response", retries |-> retries,
                            trace |-> called]
                      ELSE \* except RequestException: retries += 1
                           IF retries + 1 = max_retries
                           THEN [status |-> "None", retries |-> retries + 1,
                                 trace |-> called]
                           ELSE request_loop(method, outs, max_retries,
                                    retries + 1,
                                    Append(called,
                                        Ev("sleep", Pow2(retries + 1), "-")))

make_shopify_request(method, outs, max_retries) ==
    request_loop(method, outs, max_retries, 0, <<>>)

NetScripts == [1..NetLen -> NetOutcomes]

\* what a caller using the default max_retries can be handed for a request
RequestResults(method) ==
    {make_shopify_request(method, outs, max_retries_default).status :
        outs \in [1..max_retries_default -> NetOutcomes]}

NoRet == [status |-> "pending", retries |-> 0, trace |-> <<>>]

(***************************************************************************)
(* Data model.                                                             *)
(*                                                                         *)
(* A local product is a JSON object; the model keeps what the code reads:  *)
(* which keys are present and the values the branches depend on.           *)
(*   title          TRUE when the key "title" is present                   *)
(*   variants_kind  "absent" (no key), "null" (JSON null, a number or a    *)
(*                  boolean: a value that cannot be iterated), "string" (a *)
(*                  string, or an object none of whose keys contains       *)
(*                  "sku": no list, but a value that can be iterated),     *)
(*                  "list"                                                 *)
(*   published_at   "absent" (no key), "empty" ("" as the scraper writes   *)
(*                  for a record without the field), "set" (ISO string)    *)
(* A local variant: sku_key / price_key tell whether the key is present,   *)
(* price is the value under the key (an argument of                        *)
(* calculate_adjusted_price), available is "true", "false", "nonbool" (a   *)
(* value that is no bool) or "absent".  SKUs are strings; "" is the empty  *)
(* SKU.                                                                    *)
(* A price is a kind and a number of cents: a number written with two      *)
(* decimals ("float"), a string that float() parses to it after the euro   *)
(* sign is removed ("str"), a string that float() does not parse           *)
(* ("badstr"), None ("none"), or a value whose increase by 1.075 is        *)
(* infinite ("inf"): float("inf"), the strings "inf" and "1e400", a JSON   *)
(* number beyond the doubles, the number 1.7e308.                          *)
(* A remote product is [id, variants], a remote variant                    *)
(* [sku, inventory_item_id].                                               *)
(***************************************************************************)
Skus == {"", "A", "B"}

Price(kind, cents) == [kind |-> kind, cents |-> cents]

LVP(sku, avail, price) ==
    [sku_key |-> TRUE, sku |-> sku, price_key |-> TRUE, price |-> price,
     available |-> avail]

\* a variant at 19.00
LV(sku, avail) == LVP(sku, avail, Price("float", 1900))

ValidVariants == {LV(s, a) : s \in Skus, a \in {"true", "false"}}

LP(vs, pub) ==
    [title |-> TRUE, variants_kind |-> "list", variants |-> vs,
     published_at |-> pub]

PublishedKinds == {"absent", "empty", "set"}

\* records that validate_product_data rejects, one per rejecting branch
MalformedProducts ==
    { [LP(<<LV("A", "true")>>, "set") EXCEPT !.title = FALSE],
      [LP(<<>>, "set") EXCEPT !.variants_kind = "absent"],
      [LP(<<>>, "set") EXCEPT !.variants_kind = "null"],
      [LP(<<>>, "set") EXCEPT !.variants_kind = "string"],
      LP(<<>>, "set"),
      LP(<<[LV("A", "true") EXCEPT !.sku_key = FALSE]>>, "set"),
      LP(<<[LV("A", "true") EXCEPT !.price_key = FALSE]>>, "set"),
      LP(<<LV("A", "absent")>>, "set"),
      LP(<<LV("A", "true"), LV("B", "nonbool")>>, "absent") }

WellFormedProducts ==
    {LP(vs, pub) : vs \in (SeqsUpTo(ValidVariants, MaxVariants) \ {<<>>}),
                   pub \in PublishedKinds}

\* records that validate_product_data accepts and that hold a variant at
\* an infinite price
InfPriceProducts ==
    {LP(<<LVP("A", "true", Price("inf", 0))>>, pub) : pub \in PublishedKinds}
        \cup {LP(<<LV("B", "true"), LVP("A", "false", Price("inf", 0))>>,
                  "absent")}

LocalProducts ==
    WellFormedProducts \cup InfPriceProducts \cup MalformedProducts

RV(sku, item) == [sku |-> sku, inventory_item_id |-> item]

\* remote products get distinct ids and distinct inventory_item_ids
MkRemote(shapes, base) ==
    [i \in 1..Len(shapes) |->
        [id |-> base + i,
         variants |-> [j \in 1..Len(shapes[i]) |->
                          RV(shapes[i][j], 10 * (base + i) + j)]]]

(***************************************************************************)
(* validate_product_data (lines 272-293).                                  *)
(***************************************************************************)
\* a validator that only looks for the two required keys
validate_product_data_keys_only(product) ==
    product.title /\ product.variants_kind # "absent"

validate_product_data(product) ==
    IF ~(product.title /\ product.variants_kind # "absent") THEN FALSE
    ELSE IF product.variants_kind # "list" \/ product.variants = <<>> THEN FALSE
    ELSE \A i \in 1..Len(product.variants) :
            LET v == product.variants[i]
            IN  /\ v.sku_key /\ v.price_key /\ v.available # "absent"
                /\ v.available \in {"true", "false"}

(***************************************************************************)
(* process_product (lines 295-385).                                        *)
(***************************************************************************)
\* line 303
product_skus(product) ==
    {product.variants[i].sku :
        i \in {j \in 1..Len(product.variants) : product.variants[j].sku_key}}

HasMatch(p, skus) == \E j \in 1..Len(p.variants) : p.variants[j].sku \in skus

\* mutant: the scan does not stop at the first product with a match
find_existing_last(skus, existing) ==
    LET hits == {i \in 1..Len(existing) : HasMatch(existing[i], skus)}
    IN  IF hits = {} THEN 0 ELSE CHOOSE i \in hits : \A k \in hits : k <= i

\* lines 308-315: index of the first remote product holding a variant whose
\* sku is one of the local SKUs; 0 when there is none (existing_product None)
find_existing(skus, existing) ==
    LET hits == {i \in 1..Len(existing) : HasMatch(existing[i], skus)}
    IN  IF hits = {} THEN 0 ELSE CHOOSE i \in hits : \A k \in hits : i <= k

\* lines 309-312: variant_map[v["sku"]] = v for the matching variants of the
\* chosen product; a later variant with the same sku overwrites an earlier
variant_map(skus, p) ==
    [s \in {p.variants[j].sku : j \in {k \in 1..Len(p.variants) :
                                            p.variants[k].sku \in skus}} |->
        LET js == {j \in 1..Len(p.variants) : p.variants[j].sku = s}
        IN  p.variants[CHOOSE j \in js : \A k \in js : k <= j]]

\* line 327 (and 249)
inventory_quantity(variant) ==
    IF variant.available = "true" THEN INVENTORY_DEFAULT ELSE 0

RECURSIVE collect_updates(_, _)
\* lines 321-330: one entry per local variant that has an entry in vmap
collect_updates(variants, vmap) ==
    IF variants = <<>> THEN <<>>
    ELSE LET v == Head(variants)
             rest == collect_updates(Tail(variants), vmap)
         IN  IF v.sku \in DOMAIN vmap
             THEN <<[inventory_item_id |-> vmap[v.sku].inventory_item_id,
                     available |-> inventory_quantity(v)]>> \o rest
             ELSE rest

\* mutant: the product update is sent although a variant is unmatched
all_matched_always(vmap, product) == TRUE

\* line 339
all_matched(vmap, product) ==
    Cardinality(DOMAIN vmap) = Len(product.variants)

\* line 366
needs_publish(product) == product.published_at = "absent"

\* a reconciler that takes every product as having something to sell
any_available_always(product) == TRUE

\* line 355
any_available(product) ==
    \E i \in 1..Len(product.variants) : product.variants[i].available = "true"

\* lines 76-81: the increased price is infinite, its "% 1" is nan, the
\* test "< 0.99" is false and math.ceil raises OverflowError,
\* which the handler of line 84 (ValueError, TypeError) does not catch
price_overflows(price) == price.kind = "inf"

\* lines 241-245 in build_product_payload (lines 186-270): every variant's
\* price goes through calculate_adjusted_price, and the handler of line 267
\* catches KeyError only
build_product_payload_raises(product) ==
    \E i \in 1..Len(product.variants) :
        price_overflows(product.variants[i].price)

\* one call handed to make_shopify_request and what came back; id is the
\* product id in the URL of a PUT and, for a create that was answered, the
\* product id in the body of the response (0: the body carries none)
Call(kind, method, id, updates, resp) ==
    [kind |-> kind, method |-> method, id |-> id, updates |-> updates,
     resp |-> resp]

\* a reconciler that goes on whatever the inventory update returned
bulk_update_succeeded_always(inv) == TRUE

\* lines 341-343: no inventory call was needed, or bulk_update_inventory
\* (lines 166-184) returned True
bulk_update_succeeded(inv) == inv = <<>> \/ inv[1].resp = "response"

\* resps[i] is the result of the i-th call to make_shopify_request;
\* new_id is the product id in the body of the response to a create, 0 for
\* a body without one.  An exception inside the function is caught at
\* line 383 and makes it return False (line 385).
process_product(product, existing, resps, new_id) ==
    IF ~validate_product_data(product)
    THEN [ret |-> FALSE, calls |-> <<>>]
    ELSE
    LET skus == product_skus(product)
        idx == find_existing(skus, existing)
    IN  IF idx # 0
        THEN LET p == existing[idx]
                 vmap == variant_map(skus, p)
                 inventory_updates == collect_updates(product.variants, vmap)
                 \* bulk_update_inventory (lines 166-184)
                 inv == IF inventory_updates = <<>> THEN <<>>
                        ELSE <<Call("inventory", "POST", 0, inventory_updates,
                                    resps[1])>>
                 success == bulk_update_succeeded(inv)
             IN  IF ~success THEN [ret |-> FALSE, calls |-> inv]
                 ELSE IF all_matched(vmap, product)
                 THEN IF build_product_payload_raises(product)
                      THEN \* line 340 raises
                           [ret |-> FALSE, calls |-> inv]
                      ELSE
                      LET put == Call("update", "PUT", p.id, <<>>,
                                      resps[Len(inv) + 1])
                      IN  [ret |-> put.resp = "response",
                           calls |-> Append(inv, put)]
                 ELSE [ret |-> FALSE, calls |-> inv]
        ELSE IF ~any_available(product)
             THEN [ret |-> FALSE, calls |-> <<>>]
             ELSE IF build_product_payload_raises(product)
             THEN \* line 359 raises
                  [ret |-> FALSE, calls |-> <<>>]
             ELSE LET post == Call("create", "POST",
                                   IF resps[1] = "response" THEN new_id ELSE 0,
                                   <<>>, resps[1])
                  IN  IF post.resp = "response"
                      THEN IF needs_publish(product)
                           THEN IF new_id = 0
                                THEN \* line 369 raises KeyError
                                     [ret |-> FALSE, calls |-> <<post>>]
                                ELSE \* the response of the follow-up is
                                     \* dropped
                                     [ret |-> TRUE,
                                      calls |-> <<post, Call("publish", "PUT",
                                                   new_id, <<>>, resps[2])>>]
                           ELSE [ret |-> TRUE, calls |-> <<post>>]
                      ELSE [ret |-> FALSE, calls |-> <<post>>]

(***************************************************************************)
(* The remote service's product listing.  It serves the catalog in pages   *)
(* of PageSize products (the program asks for limit=250); a page that is   *)
(* not the last carries a Link header with rel="next".  An empty catalog   *)
(* is one empty page.                                                      *)
(***************************************************************************)
PageCount(catalog) ==
    IF catalog = <<>> THEN 1 ELSE (Len(catalog) + PageSize - 1) \div PageSize

Page(catalog, k) ==
    SubSeq(catalog, (k - 1) * PageSize + 1,
           IF k * PageSize < Len(catalog) THEN k * PageSize ELSE Len(catalog))

\* a fetcher that never follows the next link
HasNext_never(catalog, k) == FALSE

\* the response of page k carries a Link header with rel="next"
HasNext(catalog, k) == k < PageCount(catalog)

(***************************************************************************)
(* get_all_paginated (lines 117-144).  outs[k] is what the k-th request    *)
(* gives: "response" or "None" from make_shopify_request, or "badjson", a  *)
(* response whose body response.json() cannot decode (it raises).          *)
(***************************************************************************)
PageOutcomes == {"response", "None", "badjson"}

RECURSIVE fetch_loop(_, _, _, _)
fetch_loop(catalog, outs, k, all_results) ==
    IF outs[k] = "None"
    THEN \* if not response: break
         [raised |-> FALSE, failed |-> TRUE, results |-> all_results,
          requests |-> k]
    ELSE IF outs[k] = "badjson"
    THEN [raised |-> TRUE, failed |-> FALSE, results |-> all_results,
          requests |-> k]
    ELSE LET extended == all_results \o Page(catalog, k)
         IN  IF HasNext(catalog, k)
             THEN fetch_loop(catalog, outs, k + 1, extended)
             ELSE [raised |-> FALSE, failed |-> FALSE, results |-> extended,
                   requests |-> k]

get_all_paginated(catalog, outs) == fetch_loop(catalog, outs, 1, <<>>)

(***************************************************************************)
(* get_existing_products (lines 146-164).  The cache is None or a list;    *)
(* "not existing_products_cache" holds for None and for the empty list.    *)
(***************************************************************************)
CacheNone == [none |-> TRUE, items |-> <<>>]
CacheOf(items) == [none |-> FALSE, items |-> items]

Falsy(cache) == cache.none \/ cache.items = <<>>

\* a cache that already counts as expired when its age equals the TTL
needs_refresh_at_ttl(cache, last, force, current_time) ==
    force \/ Falsy(cache) \/ (current_time - last) >= CACHE_TTL

\* line 153
needs_refresh(cache, last, force, current_time) ==
    force \/ Falsy(cache) \/ (current_time - last) > CACHE_TTL

get_existing_products(cache, last, force, current_time, catalog, outs) ==
    IF needs_refresh(cache, last, force, current_time)
    THEN LET r == get_all_paginated(catalog, outs)
         IN  IF ~r.raised
             THEN [cache |-> CacheOf(r.results), last |-> current_time,
                   status |-> "returned", value |-> r.results,
                   fetch |-> IF r.failed THEN "failed" ELSE "complete",
                   requests |-> r.requests]
             ELSE \* except Exception: re-raised only on an unpopulated cache
                  IF Falsy(cache)
                  THEN [cache |-> cache, last |-> last, status |-> "raised",
                        value |-> <<>>, fetch |-> "raised",
                        requests |-> r.requests]
                  ELSE [cache |-> cache, last |-> last,
                        status |-> "returned", value |-> cache.items,
                        fetch |-> "raised", requests |-> r.requests]
    ELSE [cache |-> cache, last |-> last, status |-> "returned",
          value |-> cache.items, fetch |-> "skipped", requests |-> 0]

(***************************************************************************)
(* main (lines 413-486).                                                   *)
(***************************************************************************)
RECURSIVE collect_file(_, _)
\* lines 450-453 for one file.  product.get("variants", []) is [] when the
\* key is absent; null, a number or a boolean cannot be iterated: the
\* TypeError is caught at line 454 and ends the reading of this file, the
\* SKUs added so far stay in the set.  A string is iterated character by
\* character (an object key by key), '"sku" in variant' is false for each,
\* and the loop reads on
collect_file(products, acc) ==
    IF products = <<>> THEN acc
    ELSE LET p == Head(products)
         IN  IF p.variants_kind = "null" THEN acc
             ELSE IF p.variants_kind \in {"absent", "string"}
             THEN collect_file(Tail(products), acc)
             ELSE collect_file(Tail(products),
                      acc \cup {p.variants[i].sku :
                          i \in {j \in 1..Len(p.variants) :
                                    p.variants[j].sku_key}})

RECURSIVE collect_seen_skus(_, _)
\* lines 445-455
collect_seen_skus(fs, acc) ==
    IF fs = <<>> THEN acc
    ELSE collect_seen_skus(Tail(fs), collect_file(Head(fs), acc))

\* line 472: "if sku and sku not in seen_skus"
is_stale(sku, seen) == sku # "" /\ sku \notin seen

RECURSIVE disable_variants(_, _)
disable_variants(variants, seen) ==
    IF variants = <<>> THEN <<>>
    ELSE (IF is_stale(Head(variants).sku, seen)
          THEN <<[inventory_item_id |-> Head(variants).inventory_item_id,
                  available |-> 0]>>
          ELSE <<>>) \o disable_variants(Tail(variants), seen)

RECURSIVE collect_disabled(_, _)
\* lines 467-476
collect_disabled(existing, seen) ==
    IF existing = <<>> THEN <<>>
    ELSE disable_variants(Head(existing).variants, seen)
            \o collect_disabled(Tail(existing), seen)

\* lines 480-481: the number of chunks and the k-th chunk
ChunkCount(updates) == (Len(updates) + BATCH_SIZE - 1) \div BATCH_SIZE

\* a sweep whose every slice starts at the head of the list
Chunk_first(updates, k) ==
    SubSeq(updates, 1,
           IF BATCH_SIZE < Len(updates) THEN BATCH_SIZE ELSE Len(updates))

\* line 481: disabled_updates[i:i+BATCH_SIZE] for i = (k - 1) * BATCH_SIZE
Chunk(updates, k) ==
    SubSeq(updates, (k - 1) * BATCH_SIZE + 1,
           IF k * BATCH_SIZE < Len(updates) THEN k * BATCH_SIZE
           ELSE Len(updates))

\* the product the service stores for a successful create: the variants of
\* the payload (build_product_payload, lines 241-263) under fresh ids
Created(product, catalog) ==
    MkRemote(<<[i \in 1..Len(product.variants) |-> product.variants[i].sku]>>,
             Len(catalog))

(***************************************************************************)
(* Inputs of the specifications.                                           *)
(***************************************************************************)
\* the results make_shopify_request hands the callers of this program
Responses == UNION {RequestResults(m) : m \in KnownMethods}

\* SKU lists of remote products; <<"A", "A">> is a product that carries the
\* same SKU on two variants
RemoteShapes == {<<"">>, <<"A">>, <<"B">>, <<"A", "B">>, <<"A", "A">>}

Snapshots == {MkRemote(sh, 0) : sh \in SeqsUpTo(RemoteShapes, MaxRemote)}

ReqIdle ==
    /\ req_method = "GET" /\ req_outs = <<>> /\ req_max_retries = 0
    /\ req_ret = NoRet

NoRc == [done |-> FALSE, ret |-> FALSE, calls |-> <<>>]

RcIdle ==
    /\ rc_product = LP(<<>>, "set") /\ rc_existing = <<>> /\ rc_ret = NoRc

NoGet == [status |-> "none", value |-> <<>>, force |-> FALSE,
          fetch |-> "none", requests |-> 0, at |-> 0,
          before |-> [none |-> TRUE, items |-> <<>>], last_before |-> 0]

CacheIdle ==
    /\ existing_products_cache = [none |-> TRUE, items |-> <<>>]
    /\ last_cache_update = 0 /\ clock = 0 /\ server = <<>> /\ get_ret = NoGet

RunIdle ==
    /\ files = <<>> /\ seen_skus = {} /\ pc = "idle" /\ file_idx = 0
    /\ prod_idx = 0 /\ existing_products = <<>> /\ total_processed = 0
    /\ run_log = <<>> /\ disabled_updates = <<>> /\ sent_chunks = <<>>
    /\ failures = 0

NoPage == [done |-> FALSE, raised |-> FALSE, failed |-> FALSE,
           results |-> <<>>, requests |-> 0]

PageIdle == pg_catalog = <<>> /\ pg_outs = <<>> /\ pg_ret = NoPage

LimIdle ==
    /\ threads = {} /\ lim_time = 0 /\ last_call = 0 /\ lim_pc = <<>>
    /\ now = <<>> /\ wait_time = <<>> /\ wake = <<>> /\ stamp_time = <<>>
    /\ grants = <<>>

NoPrice == [kind |-> "unset", cents |-> 0]

PriceIdle == original_price = NoPrice /\ adjusted_price = NoPrice

(***************************************************************************)
(* SpecRequest: one call of make_shopify_request on every method, every    *)
(* script of network outcomes and every retry limit up to the default.     *)
(***************************************************************************)
InitRequest ==
    /\ req_method \in Methods
    /\ req_outs \in NetScripts
    /\ req_max_retries \in 0..max_retries_default
    /\ req_ret = NoRet
    /\ RcIdle /\ CacheIdle /\ RunIdle
    /\ PageIdle /\ LimIdle /\ PriceIdle

Execute ==
    /\ req_ret.status = "pending"
    /\ req_ret' = make_shopify_request(req_method, req_outs, req_max_retries)
    /\ UNCHANGED <<req_method, req_outs, req_max_retries>>
    /\ UNCHANGED <<rcVars, cacheVars, runVars>>
    /\ UNCHANGED <<pageVars, limVars, priceVars>>

NextRequest == Execute

SpecRequest == InitRequest /\ [][NextRequest]_vars

(***************************************************************************)
(* SpecReconcile: one call of process_product on every local product and   *)
(* snapshot of the input sets, under every result of the calls it makes    *)
(* and with a create answered with or without the id of the new product.   *)
(***************************************************************************)
InitReconcile ==
    /\ rc_product \in LocalProducts
    /\ rc_existing \in Snapshots
    /\ rc_ret = NoRc
    /\ ReqIdle /\ CacheIdle /\ RunIdle
    /\ PageIdle /\ LimIdle /\ PriceIdle

Reconcile ==
    /\ ~rc_ret.done
    /\ \E resps \in [1..2 -> Responses], new_id \in {0, Len(rc_existing) + 1} :
          LET r == process_product(rc_product, rc_existing, resps, new_id)
          IN  rc_ret' = [done |-> TRUE, ret |-> r.ret, calls |-> r.calls]
    /\ UNCHANGED <<rc_product, rc_existing>>
    /\ UNCHANGED <<reqVars, cacheVars, runVars>>
    /\ UNCHANGED <<pageVars, limVars, priceVars>>

NextReconcile == Reconcile

SpecReconcile == InitReconcile /\ [][NextReconcile]_vars

(***************************************************************************)
(* Claims about process_product, checked under SpecReconcile.              *)
(* The vocabulary below is stated on the inputs and on the calls that were *)
(* issued, not through the operators of the model.                         *)
(***************************************************************************)
RcDone == rc_ret.done
RcValid == validate_product_data(rc_product)
RcCalls == rc_ret.calls
RcLocalSkus == {rc_product.variants[i].sku : i \in 1..Len(rc_product.variants)}
RcSkusOf(k) ==
    {rc_existing[k].variants[j].sku : j \in 1..Len(rc_existing[k].variants)}
RcItemsOf(k, sku) ==
    {rc_existing[k].variants[j].inventory_item_id :
        j \in {n \in 1..Len(rc_existing[k].variants) :
                    rc_existing[k].variants[n].sku = sku}}
\* the remote products that carry one of the local SKUs
RcCarriers == {k \in 1..Len(rc_existing) : RcSkusOf(k) \cap RcLocalSkus # {}}
\* k is the first of them in snapshot order
RcFirst(k) == k \in RcCarriers /\ \A n \in RcCarriers : k <= n
RcAllOk == \A i \in 1..Len(RcCalls) : RcCalls[i].resp = "response"
RcKinds(K) == {i \in 1..Len(RcCalls) : RcCalls[i].kind \in K}
RcDistinctSkus ==
    \A i, j \in 1..Len(rc_product.variants) :
        rc_product.variants[i].sku = rc_product.variants[j].sku => i = j
RcQty(v) == IF v.available = "true" THEN 1000 ELSE 0
\* the local variants, in order, whose SKU is on remote product k
RcMatched(k) ==
    SelectSeq(rc_product.variants, LAMBDA v : v.sku \in RcSkusOf(k))
\* call i is one inventory POST with one entry per matched local variant,
\* in order, each on an item of remote product k with the variant's SKU
RcInventoryFor(i, k) ==
    /\ RcCalls[i].kind = "inventory" /\ RcCalls[i].method = "POST"
    /\ Len(RcCalls[i].updates) = Len(RcMatched(k))
    /\ \A n \in 1..Len(RcMatched(k)) :
          /\ RcCalls[i].updates[n].available = RcQty(RcMatched(k)[n])
          /\ RcCalls[i].updates[n].inventory_item_id
                \in RcItemsOf(k, RcMatched(k)[n].sku)

\* C5: a valid product whose SKUs are pairwise distinct (spec 3) and all on
\* its remote counterpart, the first remote product that carries any of
\* them (spec 4.7, step 2), gets, when every call succeeds, one inventory
\* POST with one entry per local variant, 1000 or 0, then exactly one PUT
\* with the id of that product, and succeeds.
C5_FullMatch ==
    (RcDone /\ RcValid /\ RcAllOk /\ RcDistinctSkus) =>
        \A k \in 1..Len(rc_existing) :
            (RcFirst(k) /\ RcLocalSkus \subseteq RcSkusOf(k)) =>
                /\ Len(RcCalls) = 2
                /\ RcInventoryFor(1, k)
                /\ Len(RcCalls[1].updates) = Len(rc_product.variants)
                /\ RcCalls[2].kind = "update" /\ RcCalls[2].method = "PUT"
                /\ RcCalls[2].id = rc_existing[k].id
                /\ rc_ret.ret

\* C6: a valid product with a remote counterpart (the first carrier) and a
\* local variant whose SKU is not on it gets inventory entries for the
\* matched variants only, no PUT, no create, and is not a success.
C6_PartialMatch ==
    (RcDone /\ RcValid) =>
        \A k \in 1..Len(rc_existing) :
            (RcFirst(k) /\ ~(RcLocalSkus \subseteq RcSkusOf(k))) =>
                /\ Len(RcCalls) = 1
                /\ RcInventoryFor(1, k)
                /\ RcKinds({"update", "create", "publish"}) = {}
                /\ ~rc_ret.ret

C6_Witness ==
    /\ RcDone /\ RcValid
    /\ Len(rc_product.variants) = 2
    /\ \E k \in 1..Len(rc_existing) :
          RcFirst(k) /\ ~(RcLocalSkus \subseteq RcSkusOf(k))
    /\ Len(RcCalls) = 1 /\ RcCalls[1].resp = "response"
    /\ Len(RcCalls[1].updates) = 1

RcCreateCase ==
    /\ RcDone /\ RcValid /\ RcCarriers = {}
    /\ \E i \in 1..Len(rc_product.variants) :
          rc_product.variants[i].available = "true"

\* C7: a valid product without remote counterpart and with an available
\* variant gets exactly one create (POST), issued first; when the create
\* is answered with the id of the new product and the record has no
\* publish timestamp (published_at absent or empty), exactly one follow-up
\* PUT on that product; when a timestamp is present, no follow-up.
C7_CreatePath ==
    RcCreateCase =>
        /\ RcCalls # <<>>
        /\ RcCalls[1].kind = "create" /\ RcCalls[1].method = "POST"
        /\ RcKinds({"create"}) = {1}
        /\ (/\ RcCalls[1].resp = "response" /\ RcCalls[1].id # 0
            /\ rc_product.published_at \in {"absent", "empty"}) =>
              /\ RcKinds({"publish"}) = {2}
              /\ RcCalls[2].method = "PUT"
              /\ RcCalls[2].id = RcCalls[1].id
        /\ rc_product.published_at = "set" => RcKinds({"publish"}) = {}

\* C21: a valid product without remote counterpart and without an
\* available variant causes no call at all and is not reported as success.
C21_NothingToSell ==
    (/\ RcDone /\ RcValid /\ RcCarriers = {}
     /\ \A i \in 1..Len(rc_product.variants) :
           rc_product.variants[i].available # "true")
        => RcCalls = <<>> /\ ~rc_ret.ret

\* two unavailable variants, none of them on the non-empty snapshot
C21_Witness ==
    /\ RcDone /\ RcValid /\ RcCarriers = {}
    /\ Len(rc_product.variants) = 2 /\ rc_existing # <<>>
    /\ \A i \in 1..2 : rc_product.variants[i].available = "false"
    /\ rc_product.published_at = "absent"
    /\ RcCalls = <<>>

\* C22: when a remote counterpart exists, every inventory call comes
\* before every product update, and an inventory call that failed makes
\* the result failed and leaves the product update unsent.
C22_InventoryFirst ==
    (RcDone /\ RcValid /\ RcCarriers # {}) =>
        /\ \A i \in RcKinds({"inventory"}), j \in RcKinds({"update"}) :
              i < j
        /\ (\E i \in RcKinds({"inventory"}) : RcCalls[i].resp = "None") =>
              /\ ~rc_ret.ret
              /\ RcKinds({"update"}) = {}
              /\ Len(RcCalls) = 1

\* a product all of whose variants are matched, whose inventory update
\* failed
C22_Witness ==
    /\ RcDone /\ RcValid /\ RcCarriers # {}
    /\ \E k \in RcCarriers : RcLocalSkus \subseteq RcSkusOf(k) /\ RcFirst(k)
    /\ RcKinds({"inventory"}) = {1}
    /\ RcCalls[1].resp = "None"

\* C8: when several remote products carry a local SKU, every
\* inventory_item_id sent and the id of any product update belong to the
\* first of them, and no other call is issued.
C8_FirstMatch ==
    (RcDone /\ RcValid /\ Cardinality(RcCarriers) >= 2) =>
        \A k \in 1..Len(rc_existing) :
            RcFirst(k) =>
                /\ RcKinds({"create", "publish"}) = {}
                /\ \A i \in RcKinds({"update"}) :
                      RcCalls[i].id = rc_existing[k].id
                /\ \A i \in RcKinds({"inventory"}) :
                      \A n \in 1..Len(RcCalls[i].updates) :
                          \E s \in Skus :
                              RcCalls[i].updates[n].inventory_item_id
                                  \in RcItemsOf(k, s)

C8_Witness ==
    /\ RcDone /\ RcValid /\ Cardinality(RcCarriers) >= 2
    /\ Len(RcCalls) = 2 /\ RcCalls[2].kind = "update"

\* C9: whenever a call the reconciler issued came back failed (None), the
\* product's result is failed, never success.
C9_FailedCallFails ==
    (RcDone /\ \E i \in 1..Len(RcCalls) : RcCalls[i].resp = "None")
        => ~rc_ret.ret

(***************************************************************************)
(* Claims about make_shopify_request, checked under SpecRequest.           *)
(***************************************************************************)
ReqDone == req_ret.status # "pending"

\* the script is k rate-limit responses followed by a success
ReqRateLimitedThenOk(k) ==
    /\ k + 1 <= Len(req_outs)
    /\ \A i \in 1..k : req_outs[i] = "429"
    /\ req_outs[k + 1] = "ok"

\* C10: a call that receives any number of consecutive rate-limit (429)
\* responses followed by a success returns that success.
C10_RateLimitFree ==
    (ReqDone /\ req_method \in KnownMethods
        /\ req_max_retries = max_retries_default
        /\ \E k \in 0..(Len(req_outs) - 1) : ReqRateLimitedThenOk(k))
        => req_ret.status = "response"

ReqTrace == req_ret.trace
ReqCallEvents == {i \in 1..Len(ReqTrace) : ReqTrace[i].ev = "call"}
ReqSleepEvents == {i \in 1..Len(ReqTrace) : ReqTrace[i].ev = "sleep"}

\* index of the first success in the script, Len + 1 when there is none
ReqFirstOk ==
    IF \E i \in 1..Len(req_outs) : req_outs[i] = "ok"
    THEN CHOOSE i \in 1..Len(req_outs) :
            /\ req_outs[i] = "ok"
            /\ \A j \in 1..(i - 1) : req_outs[j] # "ok"
    ELSE Len(req_outs) + 1

\* every failure before the first success is a network error or a 5xx
ReqTransientOnly ==
    \A i \in 1..Len(req_outs) :
        i < ReqFirstOk => req_outs[i] \in {"5xx", "neterr"}

\* C11: under transient failures the call is attempted once and re-issued
\* up to max_retries times after that first attempt, stopping at the first
\* success; the k-th retry is preceded by a back-off of 2^k seconds; the
\* success is returned when it comes within that budget, and the failure
\* result only when the first attempt and all max_retries retries failed.
C11_RetryBudget ==
    (ReqDone /\ req_method \in KnownMethods /\ ReqTransientOnly
        /\ req_max_retries + 1 <= Len(req_outs))
        => LET budget == req_max_retries + 1
               attempts == IF ReqFirstOk <= budget THEN ReqFirstOk ELSE budget
           IN  /\ Cardinality(ReqCallEvents) = attempts
               /\ Cardinality(ReqSleepEvents) = attempts - 1
               /\ \A i \in ReqSleepEvents :
                      ReqTrace[i].arg =
                          Pow2(Cardinality({j \in ReqSleepEvents : j <= i}))
               /\ req_ret.status =
                      (IF ReqFirstOk <= budget THEN "response" ELSE "None")

\* C12: for every method and every script of network outcomes the call
\* hands its caller a result, a response or the failure value; no exception
\* leaves it.
C12_NeverRaises ==
    ReqDone => req_ret.status \in {"response", "None"}

\* C20: every network call of a request, the first attempt and each retry,
\* is immediately preceded in the trace by a limiter.wait() of its own.
C20_AcquireBeforeCall ==
    ReqDone =>
        \A i \in ReqCallEvents : i > 1 /\ ReqTrace[i - 1].ev = "wait"

\* a request that went to the network three times: a first attempt and
\* two retries
C20_Witness ==
    /\ ReqDone
    /\ Cardinality(ReqCallEvents) = 3
    /\ \E i \in ReqCallEvents : ReqTrace[i].arg = 3 /\ ReqTrace[i].out = "ok"

(***************************************************************************)
(* SpecCache: the remote catalog cache under any sequence of calls of      *)
(* get_existing_products, while the clock advances and the remote catalog  *)
(* grows.  get_ret records the last call: its arguments, the cache and     *)
(* timestamp it found, and what it did.                                    *)
(***************************************************************************)
\* clock readings, in seconds since the start of the run
ClockReadings == {0, 1, 300, 301, 302}

\* scripts of listing-request results for a catalog: every request answered,
\* or the k-th the first one that is not (get_all_paginated stops there)
FailAt(n, k, x) == [i \in 1..n |-> IF i = k THEN x ELSE "response"]
PageScripts(catalog) ==
    {FailAt(PageCount(catalog), 0, "response")} \cup
    {FailAt(PageCount(catalog), k, x) :
        k \in 1..PageCount(catalog), x \in PageOutcomes \ {"response"}}

CacheShapes == {<<"A">>, <<"B">>}

InitCache ==
    /\ existing_products_cache = CacheNone
    /\ last_cache_update = 0
    /\ clock = 0
    /\ server \in {MkRemote(sh, 0) : sh \in SeqsUpTo(CacheShapes, 1)}
    /\ get_ret = NoGet
    /\ ReqIdle /\ RcIdle /\ RunIdle
    /\ PageIdle /\ LimIdle /\ PriceIdle

Get ==
    /\ \E force \in BOOLEAN, t \in ClockReadings, outs \in PageScripts(server) :
          /\ t >= clock
          /\ LET g == get_existing_products(existing_products_cache,
                          last_cache_update, force, t, server, outs)
             IN  /\ existing_products_cache' = g.cache
                 /\ last_cache_update' = g.last
                 /\ clock' = t
                 /\ get_ret' = [status |-> g.status, value |-> g.value,
                                force |-> force, fetch |-> g.fetch,
                                requests |-> g.requests, at |-> t,
                                before |-> existing_products_cache,
                                last_before |-> last_cache_update]
    /\ UNCHANGED server
    /\ UNCHANGED <<reqVars, rcVars, runVars>>
    /\ UNCHANGED <<pageVars, limVars, priceVars>>

\* a product appears in the remote catalog
RemoteAdd ==
    /\ Len(server) < MaxCatalog
    /\ \E sh \in CacheShapes :
          server' = server \o MkRemote(<<sh>>, Len(server))
    /\ UNCHANGED <<existing_products_cache, last_cache_update, clock, get_ret>>
    /\ UNCHANGED <<reqVars, rcVars, runVars>>
    /\ UNCHANGED <<pageVars, limVars, priceVars>>

NextCache == Get \/ RemoteAdd

SpecCache == InitCache /\ [][NextCache]_vars

GetDone == get_ret.status # "none"

\* C1: when the cache holds a populated snapshot and a listing request of
\* the refresh fails, the cache is left unchanged and the call returns the
\* previous snapshot.
C1_StaleOnFailure ==
    (GetDone /\ ~Falsy(get_ret.before) /\ get_ret.fetch = "failed") =>
        /\ existing_products_cache = get_ret.before
        /\ get_ret.status = "returned"
        /\ get_ret.value = get_ret.before.items

\* C2: when the cache has never been populated and the first fetch fails,
\* the call hands no collection to its caller: the failure propagates.
C2_BootstrapFailureRaises ==
    (GetDone /\ get_ret.before.none /\ get_ret.fetch = "failed") =>
        get_ret.status = "raised"

\* the call went to the listing: one run of get_all_paginated
GetRefreshed == get_ret.fetch # "skipped"
\* the cache the call found was a non-empty snapshot
GetPopulated == ~get_ret.before.none /\ get_ret.before.items # <<>>
GetAge == get_ret.at - get_ret.last_before

\* C16: a call without force on a populated cache refreshes exactly when
\* the age of the cache exceeds CACHE_TTL (not at age = CACHE_TTL); a call
\* with force, or on an empty cache, always refreshes; a call that does
\* not refresh issues no request and leaves the cache and its timestamp as
\* they were.
C16_RefreshRule ==
    GetDone =>
        /\ (get_ret.force \/ ~GetPopulated) => GetRefreshed
        /\ (~get_ret.force /\ GetPopulated) =>
               (GetRefreshed <=> GetAge > CACHE_TTL)
        /\ GetRefreshed => get_ret.requests >= 1
        /\ ~GetRefreshed =>
               /\ get_ret.requests = 0
               /\ existing_products_cache = get_ret.before
               /\ last_cache_update = get_ret.last_before
               /\ get_ret.status = "returned"
               /\ get_ret.value = get_ret.before.items

\* a call without force on a populated cache of age CACHE_TTL, which is
\* served from the cache
C16_Witness ==
    /\ GetDone /\ ~get_ret.force /\ GetPopulated
    /\ GetAge = CACHE_TTL
    /\ ~GetRefreshed

(***************************************************************************)
(* SpecRun: one run of main() over two brand files and a remote catalog.   *)
(* A step is one call of get_existing_products, one call of                *)
(* process_product, or one chunk of the sweep; pc is the position in main. *)
(* pc = "crashed" is an exception that leaves main.                        *)
(***************************************************************************)
RunProducts ==
    { LP(<<LV("A", "true")>>, "set"),
      LP(<<LV("B", "true")>>, "absent"),
      [LP(<<>>, "set") EXCEPT !.variants_kind = "null"] }

RunFiles ==
    {fs \in SeqsUpTo(RunProducts, MaxLocal) \X SeqsUpTo(RunProducts, MaxLocal) :
        Len(fs[1]) + Len(fs[2]) <= MaxLocal}

\* a remote product with SKU "A", and one with a variant "B" and a variant
\* without SKU
RunShapes == {<<"A">>, <<"B", "">>}

RunCatalogs == {MkRemote(sh, 0) : sh \in SeqsUpTo(RunShapes, MaxCatalog)}

\* clock readings of a run: within the TTL of the start, or past it
RunClock == {0, CACHE_TTL + 1}

NoneCount(calls) ==
    Cardinality({i \in 1..Len(calls) : calls[i].resp = "None"})

InitRun ==
    /\ files \in RunFiles
    /\ server \in RunCatalogs
    /\ existing_products_cache = CacheNone
    /\ last_cache_update = 0 /\ clock = 0 /\ get_ret = NoGet
    /\ seen_skus = {} /\ pc = "collect" /\ file_idx = 1 /\ prod_idx = 1
    /\ existing_products = <<>> /\ total_processed = 0 /\ run_log = <<>>
    /\ disabled_updates = <<>> /\ sent_chunks = <<>> /\ failures = 0
    /\ ReqIdle /\ RcIdle
    /\ PageIdle /\ LimIdle /\ PriceIdle

\* lines 445-455
CollectSkus ==
    /\ pc = "collect"
    /\ seen_skus' = collect_seen_skus(files, {})
    /\ pc' = "batch_start"
    /\ UNCHANGED <<files, file_idx, prod_idx, existing_products,
                   total_processed, run_log, disabled_updates, sent_chunks,
                   failures>>
    /\ UNCHANGED <<reqVars, rcVars, cacheVars>>
    /\ UNCHANGED <<pageVars, limVars, priceVars>>

\* the effect on the globals of one call of get_existing_products that
\* read the clock at t and came out as g
RunGet(force, t, g) ==
    /\ failures + (IF g.fetch \in {"failed", "raised"} THEN 1 ELSE 0)
          <= MaxFailures
    /\ failures' = failures + (IF g.fetch \in {"failed", "raised"} THEN 1 ELSE 0)
    /\ existing_products_cache' = g.cache
    /\ last_cache_update' = g.last
    /\ clock' = t
    /\ UNCHANGED get_ret

RunGets(force) ==
    {[t |-> t,
      g |-> get_existing_products(existing_products_cache, last_cache_update,
                                  force, t, server, outs)] :
        t \in {u \in RunClock : u >= clock}, outs \in PageScripts(server)}

\* process_brand_file, line 398; an exception is caught at line 409 and the
\* file yields 0
BatchStart ==
    /\ pc = "batch_start"
    /\ \E c \in RunGets(FALSE) :
          LET g == c.g
          IN  /\ RunGet(FALSE, c.t, g)
              /\ IF g.status = "raised"
                 THEN pc' = "batch_end" /\ UNCHANGED existing_products
                 ELSE /\ existing_products' = g.value
                      /\ pc' = IF files[file_idx] = <<>> THEN "batch_end"
                               ELSE "product"
    /\ prod_idx' = 1
    /\ UNCHANGED <<files, seen_skus, file_idx, total_processed, run_log,
                   disabled_updates, sent_chunks, server>>
    /\ UNCHANGED <<reqVars, rcVars>>
    /\ UNCHANGED <<pageVars, limVars, priceVars>>

\* lines 401-404: process_product on the next product of the file
ProcessOne ==
    /\ pc = "product"
    /\ \E resps \in [1..2 -> Responses] :
          LET product == files[file_idx][prod_idx]
              r == process_product(product, existing_products, resps,
                                   Len(server) + 1)
              created == /\ r.calls # <<>>
                         /\ r.calls[1].kind = "create"
                         /\ r.calls[1].resp = "response"
          IN  /\ failures + NoneCount(r.calls) <= MaxFailures
              /\ failures' = failures + NoneCount(r.calls)
              /\ server' = IF created THEN server \o Created(product, server)
                           ELSE server
              /\ total_processed' = total_processed + (IF r.ret THEN 1 ELSE 0)
              /\ run_log' = Append(run_log,
                                [file |-> file_idx, index |-> prod_idx,
                                 ret |-> r.ret, calls |-> r.calls])
    /\ IF prod_idx < Len(files[file_idx])
       THEN prod_idx' = prod_idx + 1 /\ pc' = "product"
       ELSE prod_idx' = prod_idx /\ pc' = "batch_end"
    /\ UNCHANGED <<files, seen_skus, file_idx, existing_products,
                   disabled_updates, sent_chunks>>
    /\ UNCHANGED <<existing_products_cache, last_cache_update, clock, get_ret>>
    /\ UNCHANGED <<reqVars, rcVars>>
    /\ UNCHANGED <<pageVars, limVars, priceVars>>

\* line 461: the forced refresh after a batch; an exception leaves main
BatchEnd ==
    /\ pc = "batch_end"
    /\ \E c \in RunGets(TRUE) :
          LET g == c.g
          IN  /\ RunGet(TRUE, c.t, g)
              /\ IF g.status = "raised"
                 THEN pc' = "crashed" /\ UNCHANGED file_idx
                 ELSE IF file_idx < Len(files)
                 THEN pc' = "batch_start" /\ file_idx' = file_idx + 1
                 ELSE pc' = "sweep" /\ UNCHANGED file_idx
    /\ UNCHANGED <<files, seen_skus, prod_idx, existing_products,
                   total_processed, run_log, disabled_updates, sent_chunks,
                   server>>
    /\ UNCHANGED <<reqVars, rcVars>>
    /\ UNCHANGED <<pageVars, limVars, priceVars>>

\* lines 466-476: the final forced refresh and the list of disable entries
Sweep ==
    /\ pc = "sweep"
    /\ \E c \in RunGets(TRUE) :
          LET g == c.g
          IN  /\ RunGet(TRUE, c.t, g)
              /\ IF g.status = "raised"
                 THEN /\ pc' = "crashed"
                      /\ UNCHANGED <<existing_products, disabled_updates>>
                 ELSE /\ existing_products' = g.value
                      /\ disabled_updates' = collect_disabled(g.value, seen_skus)
                      /\ pc' = IF collect_disabled(g.value, seen_skus) = <<>>
                               THEN "done" ELSE "send"
    /\ UNCHANGED <<files, seen_skus, file_idx, prod_idx, total_processed,
                   run_log, sent_chunks, server>>
    /\ UNCHANGED <<reqVars, rcVars>>
    /\ UNCHANGED <<pageVars, limVars, priceVars>>

\* lines 480-483: the next chunk goes through bulk_update_inventory
SendChunk ==
    /\ pc = "send"
    /\ \E resp \in Responses :
          /\ failures + (IF resp = "None" THEN 1 ELSE 0) <= MaxFailures
          /\ failures' = failures + (IF resp = "None" THEN 1 ELSE 0)
          /\ sent_chunks' = Append(sent_chunks,
                [updates |-> Chunk(disabled_updates, Len(sent_chunks) + 1),
                 resp |-> resp])
    /\ pc' = IF Len(sent_chunks) + 1 < ChunkCount(disabled_updates)
             THEN "send" ELSE "done"
    /\ UNCHANGED <<files, seen_skus, file_idx, prod_idx, existing_products,
                   total_processed, run_log, disabled_updates>>
    /\ UNCHANGED <<reqVars, rcVars, cacheVars>>
    /\ UNCHANGED <<pageVars, limVars, priceVars>>

NextRun ==
    CollectSkus \/ BatchStart \/ ProcessOne \/ BatchEnd \/ Sweep \/ SendChunk

SpecRun == InitRun /\ [][NextRun]_vars

(***************************************************************************)
(* Claims about the stale sweep, checked under SpecRun.                    *)
(***************************************************************************)
\* the SKUs that appear on a variant of a product of a local batch
RunLocalSkus ==
    {sku \in Skus :
        \E f \in 1..Len(files) : \E i \in 1..Len(files[f]) :
            \E j \in 1..Len(files[f][i].variants) :
                /\ files[f][i].variants[j].sku_key
                /\ files[f][i].variants[j].sku = sku}

\* the variants the remote catalog holds
RunRemoteVariants ==
    UNION {{server[i].variants[j] : j \in 1..Len(server[i].variants)} :
                i \in 1..Len(server)}

DisableCount(item) ==
    Cardinality({n \in 1..Len(disabled_updates) :
                    disabled_updates[n].inventory_item_id = item})

\* C3: at the end of every run, each remote variant whose SKU appears in no
\* local batch has exactly one disable entry (available = 0).
C3_StaleDisabledOnce ==
    pc = "done" =>
        \A v \in RunRemoteVariants :
            (v.sku # "" /\ v.sku \notin RunLocalSkus) =>
                /\ DisableCount(v.inventory_item_id) = 1
                /\ \A n \in 1..Len(disabled_updates) :
                      disabled_updates[n].inventory_item_id
                            = v.inventory_item_id
                          => disabled_updates[n].available = 0

\* C4: a remote variant whose SKU appears on any variant of any product of
\* any local batch has no disable entry.
C4_LocalNeverDisabled ==
    pc = "done" =>
        \A v \in RunRemoteVariants :
            v.sku \in RunLocalSkus => DisableCount(v.inventory_item_id) = 0

\* the SKUs of the local product behind entry n of the run log
RunSkusAt(n) ==
    LET product == files[run_log[n].file][run_log[n].index]
    IN  {product.variants[j].sku : j \in 1..Len(product.variants)}

\* entry n of the run log holds a create call of the given outcome
RunCreateAt(n, resp) ==
    \E c \in 1..Len(run_log[n].calls) :
        /\ run_log[n].calls[c].kind = "create"
        /\ run_log[n].calls[c].resp = resp

\* C17: when a product was created for a SKU in one batch, no product of a
\* later batch that carries this SKU issues a create call: it is matched
\* against the product created before.
C17_CrossBatchVisible ==
    \A m, n \in 1..Len(run_log) :
        (/\ run_log[m].file < run_log[n].file
         /\ RunCreateAt(m, "response")
         /\ RunSkusAt(m) \cap RunSkusAt(n) # {})
            => ~\E resp \in Responses : RunCreateAt(n, resp)

(***************************************************************************)
(* SpecBatch: runs of main() whose brand files hold malformed records of   *)
(* every kind next to a valid product, against a remote catalog with one   *)
(* product, and a valid product whose price is infinite.  The steps are    *)
(* those of SpecRun.                                                       *)
(***************************************************************************)
BatchProducts ==
    {LP(<<LV("A", "true")>>, "set"),
     LP(<<LVP("A", "true", Price("inf", 0))>>, "set")}
        \cup MalformedProducts

BatchFiles ==
    {fs \in SeqsUpTo(BatchProducts, MaxLocal) \X SeqsUpTo(BatchProducts, MaxLocal) :
        Len(fs[1]) + Len(fs[2]) <= MaxLocal}

InitBatch ==
    /\ files \in BatchFiles
    /\ server = MkRemote(<<<<"B", "">>>>, 0)
    /\ existing_products_cache = CacheNone
    /\ last_cache_update = 0 /\ clock = 0 /\ get_ret = NoGet
    /\ seen_skus = {} /\ pc = "collect" /\ file_idx = 1 /\ prod_idx = 1
    /\ existing_products = <<>> /\ total_processed = 0 /\ run_log = <<>>
    /\ disabled_updates = <<>> /\ sent_chunks = <<>> /\ failures = 0
    /\ ReqIdle /\ RcIdle
    /\ PageIdle /\ LimIdle /\ PriceIdle

SpecBatch == InitBatch /\ [][NextRun]_vars

RunProductAt(n) == files[run_log[n].file][run_log[n].index]

\* the local product behind entry n of the run log is malformed: it has no
\* title or no variants, its variants are no list or an empty one, or a
\* variant lacks sku, price or available or has a non-boolean available
RunMalformedAt(n) ==
    LET product == RunProductAt(n)
    IN  \/ ~product.title
        \/ product.variants_kind # "list"
        \/ product.variants = <<>>
        \/ \E j \in 1..Len(product.variants) :
              \/ ~product.variants[j].sku_key
              \/ ~product.variants[j].price_key
              \/ product.variants[j].available \notin {"true", "false"}

RunLocalCount ==
    LET RECURSIVE Sum(_)
        Sum(f) == IF f = 0 THEN 0 ELSE Len(files[f]) + Sum(f - 1)
    IN  Sum(Len(files))

\* C19: a malformed local product causes no call and is reported failed;
\* total_processed counts exactly the products reported as succeeded; the
\* product after it in the same batch is processed next; and a run in
\* which no request failed has processed every product of every batch,
\* once, by the time it reaches the sweep.
C19_RejectedIsolated ==
    /\ \A n \in 1..Len(run_log) :
          RunMalformedAt(n) =>
              /\ run_log[n].calls = <<>>
              /\ ~run_log[n].ret
              /\ run_log[n].index < Len(files[run_log[n].file]) =>
                     IF n = Len(run_log)
                     THEN /\ pc = "product"
                          /\ file_idx = run_log[n].file
                          /\ prod_idx = run_log[n].index + 1
                     ELSE /\ run_log[n + 1].file = run_log[n].file
                          /\ run_log[n + 1].index = run_log[n].index + 1
    /\ total_processed =
          Cardinality({n \in 1..Len(run_log) : run_log[n].ret})
    /\ (failures = 0 /\ pc \in {"sweep", "send", "done"}) =>
          /\ Len(run_log) = RunLocalCount
          /\ \A f \in 1..Len(files) : \A i \in 1..Len(files[f]) :
                \E n \in 1..Len(run_log) :
                    run_log[n].file = f /\ run_log[n].index = i

\* a run that rejected a product for a variant without price and went on
\* to process a product of a later batch with success
C19_Witness ==
    \E m, n \in 1..Len(run_log) :
        /\ RunMalformedAt(m)
        /\ RunProductAt(m).variants # <<>>
        /\ ~RunProductAt(m).variants[1].price_key
        /\ run_log[m].file < run_log[n].file
        /\ run_log[n].ret
        /\ run_log[n].calls # <<>>

(***************************************************************************)
(* SpecSweep: runs of main() against a remote product whose variants are   *)
(* all stale, in numbers around the multiples of BATCH_SIZE, so that the   *)
(* sweep sends up to MaxChunks chunks.  The steps are those of SpecRun.    *)
(***************************************************************************)
SweepSizes ==
    {n \in 1..((MaxChunks - 1) * BATCH_SIZE + 1) :
        n % BATCH_SIZE \in {0, 1, BATCH_SIZE - 1}}

SweepFiles ==
    { <<<<LP(<<LV("A", "true")>>, "set")>>, <<>>>>,
      <<<<>>, <<LP(<<LV("A", "true")>>, "set")>>>> }

InitSweep ==
    /\ files \in SweepFiles
    /\ \E n \in SweepSizes : server = MkRemote(<<[j \in 1..n |-> "B"]>>, 0)
    /\ existing_products_cache = CacheNone
    /\ last_cache_update = 0 /\ clock = 0 /\ get_ret = NoGet
    /\ seen_skus = {} /\ pc = "collect" /\ file_idx = 1 /\ prod_idx = 1
    /\ existing_products = <<>> /\ total_processed = 0 /\ run_log = <<>>
    /\ disabled_updates = <<>> /\ sent_chunks = <<>> /\ failures = 0
    /\ ReqIdle /\ RcIdle
    /\ PageIdle /\ LimIdle /\ PriceIdle

SpecSweep == InitSweep /\ [][NextRun]_vars

\* the entries of the first k chunks sent, in the order sent
RECURSIVE SentUpTo(_)
SentUpTo(k) ==
    IF k = 0 THEN <<>> ELSE SentUpTo(k - 1) \o sent_chunks[k].updates

\* C23: every chunk sent holds between 1 and 50 entries; the chunks sent
\* so far, put end to end, are the head of the list of disable entries,
\* and the whole list once the run is over, whatever the chunks' results;
\* no chunk is sent before the last batch and the final refresh are over.
C23_SweepChunks ==
    /\ \A k \in 1..Len(sent_chunks) :
          Len(sent_chunks[k].updates) \in 1..50
    /\ Len(SentUpTo(Len(sent_chunks))) <= Len(disabled_updates)
    /\ SentUpTo(Len(sent_chunks)) =
          SubSeq(disabled_updates, 1, Len(SentUpTo(Len(sent_chunks))))
    /\ pc = "send" =>
          Len(SentUpTo(Len(sent_chunks))) < Len(disabled_updates)
    /\ pc = "done" => SentUpTo(Len(sent_chunks)) = disabled_updates
    /\ pc \notin {"send", "done"} =>
          sent_chunks = <<>> /\ disabled_updates = <<>>
    /\ pc \in {"send", "done"} => file_idx = Len(files)

\* a finished sweep of 51 entries in two chunks, the first of which failed
C23_Witness ==
    /\ pc = "done"
    /\ Len(disabled_updates) = 51
    /\ Len(sent_chunks) = 2
    /\ sent_chunks[1].resp = "None"
    /\ Len(sent_chunks[2].updates) = 1

(***************************************************************************)
(* SpecFetch: one call of get_all_paginated on every catalog of up to      *)
(* MaxPages pages, under every result of its page requests.                *)
(***************************************************************************)
FetchCatalogs ==
    {MkRemote(sh, 0) : sh \in SeqsUpTo(CacheShapes, MaxPages * PageSize)}

InitFetch ==
    /\ pg_catalog \in FetchCatalogs
    /\ pg_outs \in [1..MaxPages -> PageOutcomes]
    /\ pg_ret = NoPage
    /\ ReqIdle /\ RcIdle /\ CacheIdle /\ RunIdle /\ LimIdle /\ PriceIdle

FetchAll ==
    /\ ~pg_ret.done
    /\ LET r == get_all_paginated(pg_catalog, pg_outs)
       IN  pg_ret' = [done |-> TRUE, raised |-> r.raised,
                      failed |-> r.failed, results |-> r.results,
                      requests |-> r.requests]
    /\ UNCHANGED <<pg_catalog, pg_outs>>
    /\ UNCHANGED <<reqVars, rcVars, cacheVars, runVars, limVars, priceVars>>

NextFetch == FetchAll

SpecFetch == InitFetch /\ [][NextFetch]_vars

\* number of pages of the chain: the listing answers an empty catalog with
\* one empty page
PgPages ==
    IF pg_catalog = <<>> THEN 1
    ELSE (Len(pg_catalog) + PageSize - 1) \div PageSize

\* the items of pages 1..k in page order
PgItemsUpTo(k) ==
    SubSeq(pg_catalog, 1,
           IF k * PageSize < Len(pg_catalog) THEN k * PageSize
           ELSE Len(pg_catalog))

\* the requests for pages 1..k all came back with a decodable response
PgSucceedUpTo(k) == \A i \in 1..k : pg_outs[i] = "response"

\* C15: a fetch over a finite chain of pages ends; when every page request
\* succeeds it returns the items of all pages in page order; when the
\* request for page k fails after pages 1..k-1 succeeded it returns exactly
\* the items of pages 1..k-1, raises nothing, and has issued k requests,
\* none for a later page.
C15_FetchAll ==
    pg_ret.done =>
        /\ PgSucceedUpTo(PgPages) =>
               /\ ~pg_ret.raised
               /\ pg_ret.results = pg_catalog
               /\ pg_ret.requests = PgPages
        /\ \A k \in 1..PgPages :
               (PgSucceedUpTo(k - 1) /\ pg_outs[k] = "None") =>
                   /\ ~pg_ret.raised
                   /\ pg_ret.results = PgItemsUpTo(k - 1)
                   /\ pg_ret.requests = k

\* a chain of three pages whose second request failed
C15_Witness ==
    /\ pg_ret.done
    /\ PgPages = 3
    /\ pg_outs[1] = "response" /\ pg_outs[2] = "None"
    /\ Len(pg_ret.results) = PageSize

(***************************************************************************)
(* calculate_adjusted_price (lines 66-86).                                 *)
(*                                                                         *)
(* The code computes in binary floating point (Python floats are IEEE-754  *)
(* doubles), and on the prices whose increase ends in .99 the rounding of  *)
(* the product decides the branch: 37.2 * 1.075 evaluates to a value whose *)
(* fraction is above 0.99, 77.2 * 1.075 to one whose fraction is below.    *)
(* The arithmetic is therefore the doubles': a double is a significand m   *)
(* of 53 bits and an exponent e, of value m * 2^e, and every operation     *)
(* rounds its exact result to the nearest double, ties to even.            *)
(* Significands and their products are naturals of up to 106 bits, kept    *)
(* as sequences of limbs of LimbBits bits, least significant first, with   *)
(* no zero at the top.                                                     *)
(*                                                                         *)
(* A price is written with two decimals, as a number of cents: the         *)
(* argument is the double nearest to it ("float"), a string that float()   *)
(* parses to that double after the euro sign is removed ("str"), a string  *)
(* that it does not parse ("badstr", ValueError), None ("none",            *)
(* TypeError) or an infinite value ("inf"), on which math.ceil raises an   *)
(* OverflowError that leaves the function: the result is then written as   *)
(* the kind "OverflowError".  The result round(n + 0.99, 2) is the double  *)
(* nearest to n.99, written as n * 100 + 99 cents.                         *)
(***************************************************************************)
\* bits of a limb: the product of two limbs and a carry is below 2^31
LimbBits == 15
Limb == Pow2(LimbBits)
\* bits of the significand of a double
MantissaBits == 53

RECURSIVE Trim(_)
Trim(a) ==
    IF a # <<>> /\ a[Len(a)] = 0 THEN Trim(SubSeq(a, 1, Len(a) - 1)) ELSE a

RECURSIVE FromInt(_)
FromInt(n) == IF n = 0 THEN <<>> ELSE <<n % Limb>> \o FromInt(n \div Limb)

RECURSIVE ToInt(_)
ToInt(a) == IF a = <<>> THEN 0 ELSE a[1] + Limb * ToInt(Tail(a))

\* a + b + carry
RECURSIVE AddC(_, _, _)
AddC(a, b, carry) ==
    IF a = <<>> /\ b = <<>>
    THEN FromInt(carry)
    ELSE LET x == IF a = <<>> THEN 0 ELSE a[1]
             y == IF b = <<>> THEN 0 ELSE b[1]
             t == x + y + carry
         IN  <<t % Limb>> \o AddC(IF a = <<>> THEN <<>> ELSE Tail(a),
                                  IF b = <<>> THEN <<>> ELSE Tail(b),
                                  t \div Limb)

\* a * k + carry, for k and carry of one limb
RECURSIVE MulSmallC(_, _, _)
MulSmallC(a, k, carry) ==
    IF a = <<>>
    THEN FromInt(carry)
    ELSE LET t == a[1] * k + carry
         IN  <<t % Limb>> \o MulSmallC(Tail(a), k, t \div Limb)

RECURSIVE MulLimbs(_, _)
MulLimbs(a, b) ==
    IF b = <<>>
    THEN <<>>
    ELSE AddC(MulSmallC(a, b[1], 0), <<0>> \o MulLimbs(a, Tail(b)), 0)

Mul(a, b) == Trim(MulLimbs(a, b))

\* quotient q and remainder r of the limbs 1..i of a, after the limbs
\* above them left the remainder rem, by a divisor d of one limb
RECURSIVE DivStep(_, _, _, _)
DivStep(a, d, i, rem) ==
    IF i = 0
    THEN [q |-> <<>>, r |-> rem]
    ELSE LET t == rem * Limb + a[i]
             rest == DivStep(a, d, i - 1, t % d)
         IN  [q |-> Append(rest.q, t \div d), r |-> rest.r]

DivSmall(a, d) ==
    LET res == DivStep(a, d, Len(a), 0)
    IN  [q |-> Trim(res.q), r |-> res.r]

\* a * 2^n
ShiftLeft(a, n) ==
    IF a = <<>>
    THEN <<>>
    ELSE [i \in 1..(n \div LimbBits) |-> 0]
             \o MulSmallC(a, Pow2(n % LimbBits), 0)

\* a \div 2^n
ShiftRight(a, n) ==
    IF n \div LimbBits >= Len(a)
    THEN <<>>
    ELSE DivSmall(SubSeq(a, n \div LimbBits + 1, Len(a)),
                  Pow2(n % LimbBits)).q

\* a % 2^n
LowBits(a, n) ==
    IF n \div LimbBits >= Len(a)
    THEN a
    ELSE Trim(SubSeq(a, 1, n \div LimbBits)
                  \o <<a[n \div LimbBits + 1] % Pow2(n % LimbBits)>>)

RECURSIVE BitLenInt(_)
BitLenInt(n) == IF n = 0 THEN 0 ELSE 1 + BitLenInt(n \div 2)

BitLen(a) ==
    IF a = <<>> THEN 0 ELSE (Len(a) - 1) * LimbBits + BitLenInt(a[Len(a)])

\* -1, 0 or 1 as the limbs 1..i of a are below, equal to or above b's
RECURSIVE CmpFrom(_, _, _)
CmpFrom(a, b, i) ==
    IF i = 0 THEN 0
    ELSE IF a[i] < b[i] THEN -1
    ELSE IF a[i] > b[i] THEN 1
    ELSE CmpFrom(a, b, i - 1)

Cmp(a, b) ==
    IF Len(a) < Len(b) THEN -1
    ELSE IF Len(a) > Len(b) THEN 1
    ELSE CmpFrom(a, b, Len(a))

\* (q + f) / 2^s to the nearest natural, ties to even, for a fraction f
\* that is zero or (sticky) strictly between 0 and 1, and s >= 1
RoundHalfEven(q, s, sticky) ==
    LET m == ShiftRight(q, s)
        c == Cmp(LowBits(q, s), ShiftLeft(<<1>>, s - 1))
        odd == m # <<>> /\ m[1] % 2 = 1
    IN  IF c > 0 \/ (c = 0 /\ (sticky \/ odd)) THEN AddC(m, <<1>>, 0) ELSE m

\* the double nearest to (q + f) * 2^e, for q of more than MantissaBits
\* bits
NearestDouble(q, e, sticky) ==
    LET s == BitLen(q) - MantissaBits
        m == RoundHalfEven(q, s, sticky)
    IN  IF BitLen(m) > MantissaBits
        THEN [m |-> ShiftRight(m, 1), e |-> e + s + 1]
        ELSE [m |-> m, e |-> e + s]

\* float() of the decimal num / den, and the float literals of CONFIG
float(num, den) ==
    LET d == DivSmall(ShiftLeft(FromInt(num), 5 * LimbBits), den)
    IN  NearestDouble(d.q, -(5 * LimbBits), d.r # 0)

\* x * y of two floats
float_mul(x, y) == NearestDouble(Mul(x.m, y.m), x.e + y.e, FALSE)

\* math.floor(x), x % 1 as a number of 2^x.e-ths, and x % 1 < y, for
\* floats x >= 0 below 2^52 and y
float_floor(x) == ToInt(ShiftRight(x.m, -x.e))
float_mod1(x) == LowBits(x.m, -x.e)
float_mod1_less(x, y) ==
    Cmp(ShiftLeft(float_mod1(x), -y.e), ShiftLeft(y.m, -x.e)) < 0

calculate_adjusted_price(price) ==
    IF price.kind \in {"badstr", "none"}
    THEN \* except (ValueError, TypeError): return original_price
         price
    ELSE IF price_overflows(price)
    THEN \* the exception leaves the function
         Price("OverflowError", 0)
    ELSE LET original == float(price.cents, 100)
             increased_price ==
                 float_mul(original, float(BASE_PRICE_INCREASE, 1000))
             floor == float_floor(increased_price)
             ceil == IF float_mod1(increased_price) # <<>>
                     THEN floor + 1 ELSE floor
         IN  IF float_mod1_less(increased_price, float(PRICE_ROUNDING, 100))
             THEN Price("float", floor * 100 + PRICE_ROUNDING)
             ELSE Price("float", ceil * 100 + PRICE_ROUNDING)

(***************************************************************************)
(* SpecPrice: one call of calculate_adjusted_price on every price of up to *)
(* MaxCents cents, given as a number or as a string, and on the arguments  *)
(* it cannot convert or fails on.                                          *)
(***************************************************************************)
InitPrice ==
    /\ original_price \in
          {Price(k, c) : k \in {"float", "str"}, c \in 1..MaxCents}
              \cup {Price("badstr", 0), Price("none", 0), Price("inf", 0)}
    /\ adjusted_price = NoPrice
    /\ ReqIdle /\ RcIdle /\ CacheIdle /\ RunIdle /\ PageIdle /\ LimIdle

Adjust ==
    /\ adjusted_price = NoPrice
    /\ adjusted_price' = calculate_adjusted_price(original_price)
    /\ UNCHANGED original_price
    /\ UNCHANGED <<reqVars, rcVars, cacheVars, runVars, pageVars, limVars>>

NextPrice == Adjust

SpecPrice == InitPrice /\ [][NextPrice]_vars

PriceDone == adjusted_price # NoPrice

\* C18: for a positive price the result ends in .99, is at least the price
\* times 1.075, and is the smallest such value: the .99 value one unit
\* below it lies under the price times 1.075.  Amounts are compared in
\* units of 1/1000 cent.
C18_SmallestNinetyNine ==
    (PriceDone /\ original_price.kind \in {"float", "str"}) =>
        /\ adjusted_price.kind = "float"
        /\ adjusted_price.cents % 100 = 99
        /\ adjusted_price.cents * 1000 >= original_price.cents * 1075
        /\ (adjusted_price.cents - 100) * 1000 < original_price.cents * 1075

(***************************************************************************)
(* RateLimiter (lines 48-64).                                              *)
(*                                                                         *)
(* Time is counted in ticks of min_interval / TicksPerInterval seconds;    *)
(* time.time() is taken to be monotonic and time.sleep(d) to return no     *)
(* earlier than d after it was called.  wait() is five steps: line 55      *)
(* reads the clock into now; lines 56-59 read last_call, compute wait_time *)
(* and, when it is positive, start the sleep; the sleep returns; line 61   *)
(* reads the clock again; line 61 stores what it read in last_call.  A     *)
(* thread switch can fall between any two of them.  grants lists the       *)
(* returns of wait() in the order of the stores: the thread, the time it   *)
(* read at line 55 and the time it read and stored at line 61.             *)
(***************************************************************************)
\* line 53: 1.0 / calls_per_second, in ticks
min_interval == TicksPerInterval

\* time.time() when the limiter is first used; last_call starts at 0
StartTime == min_interval + 1

\* a limiter that never sleeps
compute_wait_time_none(current, last) == 0

\* lines 56-57
compute_wait_time(current, last) ==
    LET elapsed == current - last
    IN  IF min_interval - elapsed > 0 THEN min_interval - elapsed ELSE 0

InFlight == {c \in threads : lim_pc[c] # "idle"}

\* line 55
ReadClock(c) ==
    /\ lim_pc[c] = "idle"
    /\ Len(grants) + Cardinality(InFlight) < MaxAcquire
    /\ now' = [now EXCEPT ![c] = lim_time]
    /\ lim_pc' = [lim_pc EXCEPT ![c] = "elapsed"]
    /\ UNCHANGED <<threads, lim_time, last_call, wait_time, wake, stamp_time,
                   grants>>
    /\ UNCHANGED <<reqVars, rcVars, cacheVars, runVars, pageVars, priceVars>>

\* lines 56-59: the sleep, if any, starts here and ends at wake or later
ComputeWait(c) ==
    /\ lim_pc[c] = "elapsed"
    /\ LET w == compute_wait_time(now[c], last_call)
       IN  /\ wait_time' = [wait_time EXCEPT ![c] = w]
           /\ wake' = [wake EXCEPT ![c] = lim_time + w]
           /\ lim_pc' = [lim_pc EXCEPT ![c] = IF w > 0 THEN "sleep"
                                               ELSE "stamp"]
    /\ UNCHANGED <<threads, lim_time, last_call, now, stamp_time, grants>>
    /\ UNCHANGED <<reqVars, rcVars, cacheVars, runVars, pageVars, priceVars>>

\* line 59: time.sleep(wait_time) returns
WakeUp(c) ==
    /\ lim_pc[c] = "sleep"
    /\ lim_time >= wake[c]
    /\ lim_pc' = [lim_pc EXCEPT ![c] = "stamp"]
    /\ UNCHANGED <<threads, lim_time, last_call, now, wait_time, wake,
                   stamp_time, grants>>
    /\ UNCHANGED <<reqVars, rcVars, cacheVars, runVars, pageVars, priceVars>>

\* line 61, right-hand side: time.time() is read
Stamp(c) ==
    /\ lim_pc[c] = "stamp"
    /\ stamp_time' = [stamp_time EXCEPT ![c] = lim_time]
    /\ lim_pc' = [lim_pc EXCEPT ![c] = "store"]
    /\ UNCHANGED <<threads, lim_time, last_call, now, wait_time, wake, grants>>
    /\ UNCHANGED <<reqVars, rcVars, cacheVars, runVars, pageVars, priceVars>>

\* line 61, assignment: the time read is stored in last_call, and wait()
\* returns
Store(c) ==
    /\ lim_pc[c] = "store"
    /\ last_call' = stamp_time[c]
    /\ grants' = Append(grants,
                     [thread |-> c, began |-> now[c], at |-> stamp_time[c]])
    /\ lim_pc' = [lim_pc EXCEPT ![c] = "idle"]
    /\ UNCHANGED <<threads, lim_time, now, wait_time, wake, stamp_time>>
    /\ UNCHANGED <<reqVars, rcVars, cacheVars, runVars, pageVars, priceVars>>

\* the clock advances
Tick ==
    /\ lim_time < StartTime + MaxTime
    /\ lim_time' = lim_time + 1
    /\ UNCHANGED <<threads, last_call, lim_pc, now, wait_time, wake,
                   stamp_time, grants>>
    /\ UNCHANGED <<reqVars, rcVars, cacheVars, runVars, pageVars, priceVars>>

InitLimiterOf(T) ==
    /\ threads = T
    /\ lim_time = StartTime
    /\ last_call = 0
    /\ lim_pc = [c \in T |-> "idle"]
    /\ now = [c \in T |-> 0]
    /\ wait_time = [c \in T |-> 0]
    /\ wake = [c \in T |-> 0]
    /\ stamp_time = [c \in T |-> 0]
    /\ grants = <<>>
    /\ ReqIdle /\ RcIdle /\ CacheIdle /\ RunIdle /\ PageIdle /\ PriceIdle

NextLimiter ==
    \/ \E c \in threads : ReadClock(c)
    \/ \E c \in threads : ComputeWait(c)
    \/ \E c \in threads : WakeUp(c)
    \/ \E c \in threads : Stamp(c)
    \/ \E c \in threads : Store(c)
    \/ Tick

(***************************************************************************)
(* SpecLimiter: the program as written, one thread calling limiter.wait()  *)
(* before each request.                                                    *)
(***************************************************************************)
InitLimiter == InitLimiterOf({1})

SpecLimiter == InitLimiter /\ [][NextLimiter]_vars

\* C13: consecutive returns of wait() are at least one min_interval
\* (1/k seconds) apart, and n sequential calls take at least n - 1
\* intervals from the start of the first to the return of the last.
C13_SequentialSpacing ==
    /\ \A i \in 1..(Len(grants) - 1) :
          grants[i + 1].at - grants[i].at >= TicksPerInterval
    /\ Len(grants) >= 1 =>
          grants[Len(grants)].at - grants[1].began
              >= (Len(grants) - 1) * TicksPerInterval

\* three calls in a row, the second returning exactly one interval after
\* the first
C13_Witness ==
    /\ Len(grants) >= 3
    /\ grants[2].at = grants[1].at + TicksPerInterval

(***************************************************************************)
(* SpecLimiterThreads: the same limiter called from MaxThreads threads,    *)
(* their steps interleaved in every order.                                 *)
(***************************************************************************)
InitLimiterThreads == InitLimiterOf(1..MaxThreads)

SpecLimiterThreads == InitLimiterThreads /\ [][NextLimiter]_vars

\* C14: no two threads are at once between their read of last_call and
\* their write of it, and under every interleaving no two returns of
\* wait() are closer than one min_interval.
C14_ExclusiveSpacing ==
    /\ \A c, d \in threads :
          (c # d /\ lim_pc[c] \in {"sleep", "stamp", "store"})
              => lim_pc[d] \notin {"sleep", "stamp", "store"}
    /\ \A i, j \in 1..Len(grants) :
          i # j => \/ grants[j].at - grants[i].at >= TicksPerInterval
                   \/ grants[i].at - grants[j].at >= TicksPerInterval
====
